---- MODULE Spec2Model ----
(***************************************************************************)
(* A model of utils/password_generator.py: PasswordGenerator's             *)
(* generate_password (validation, character-set assembly, the mandatory    *)
(* draw per selected type, the fill, the shuffle), generate_multiple_      *)
(* passwords and check_password_strength.                                  *)
(*                                                                         *)
(* A string is a sequence of one-character strings.  generate_password is  *)
(* modelled statement by statement so that the order of its checks and of  *)
(* its draws from the random source is part of the behaviour.              *)
(***************************************************************************)
EXTENDS Integers, Sequences, FiniteSets, TLC

VARIABLES
    pc,              \* position inside generate_password
    cfg,             \* the arguments of the running generate_password call
    char_set,        \* local char_set
    selected_types,  \* local selected_types
    password_chars,  \* local password_chars
    password_list,   \* local password_list
    i,               \* index of the running loop
    err,             \* the exception generate_password ended with, or "none"
    result,          \* the string generate_password returned
    draws,           \* values taken from the random source by this call
    sampled,         \* characters the explored runs let secrets.choice return
    many_pc,         \* position inside generate_multiple_passwords
    count,           \* its argument count
    kwargs,          \* its keyword arguments
    passwords,       \* the list its comprehension has built so far
    many_result,     \* the list it returned
    many_err,        \* the exception it ended with, or "none"
    an_pc,           \* position of check_password_strength
    password,        \* its argument
    report           \* the dict it returned

gen_vars == <<pc, cfg, char_set, selected_types, password_chars, password_list,
              i, err, result, draws>>
many_vars == <<many_pc, count, kwargs, passwords, many_result, many_err>>
an_vars == <<an_pc, password, report>>
vars == <<gen_vars, sampled, many_vars, an_vars>>

(***************************************************************************)
(* Bounds of the exploration.                                              *)
(***************************************************************************)
MaxLen == 4
MaxCount == 2
MaxHead == 4
MaxPad == 13

(***************************************************************************)
(* PasswordGenerator.__init__: the character tables.                       *)
(***************************************************************************)
lowercase ==
    <<"a","b","c","d","e","f","g","h","i","j","k","l","m",
      "n","o","p","q","r","s","t","u","v","w","x","y","z">>

uppercase ==
    <<"A","B","C","D","E","F","G","H","I","J","K","L","M",
      "N","O","P","Q","R","S","T","U","V","W","X","Y","Z">>

digits == <<"0","1","2","3","4","5","6","7","8","9">>

symbols ==
    <<"!","@","#","$","%","^","&","*","(",")","_","+","-",
      "=","[","]","{","}","|",";",":",",",".","<",">","?">>

\* the grave accent is written "GRAVE": the lexer cannot hold it in a string
ambiguous_chars_all_digits ==
    <<"0","O","1","l","I","|","GRAVE","'","\"","2","3","4","5","6","7","8","9">>

ambiguous_chars == <<"0","O","1","l","I","|","GRAVE","'","\"">>

MinLength == 4

Range(s) == {s[k] : k \in 1..Len(s)}

(***************************************************************************)
(* The random source.  secrets.randbelow(n) returns any of 0..n-1.         *)
(* secrets.choice(seq) returns any element of a non-empty seq; the         *)
(* explored runs let it return the first element or an element of          *)
(* sampled.                                                              *)
(***************************************************************************)
RandBelow(n) == 0..(n - 1)

Choice(seq) == {seq[1]} \cup (Range(seq) \cap sampled)

Probe == {"l", "O", "9", "|"}
ManyProbe == {}

(***************************************************************************)
(* generate_password, lines 59-95: validation and character-set assembly.  *)
(***************************************************************************)
LengthInvalidBelowOne(length) == length < 1

LengthInvalidInclusive(length) == length <= MinLength

LengthInvalid(length) == length < MinLength

FilterAmbiguousOff(chars, exclude_ambiguous) == chars

FilterAmbiguous(chars, exclude_ambiguous) ==
    IF exclude_ambiguous
    THEN SelectSeq(chars, LAMBDA c : c \notin Range(ambiguous_chars))
    ELSE chars

\* the (class table, include flag) pairs in the order of the four if-blocks
Blocks(c) ==
    << <<lowercase, c.include_lowercase>>,
       <<uppercase, c.include_uppercase>>,
       <<digits, c.include_digits>>,
       <<symbols, c.include_symbols>> >>

RECURSIVE CharSetFrom(_, _, _)
CharSetFrom(blocks, k, c) ==
    IF k > Len(blocks) THEN <<>>
    ELSE (IF blocks[k][2]
          THEN FilterAmbiguous(blocks[k][1], c.exclude_ambiguous)
          ELSE <<>>) \o CharSetFrom(blocks, k + 1, c)

RECURSIVE SelectedTypesFrom(_, _, _)
SelectedTypesFrom(blocks, k, c) ==
    IF k > Len(blocks) THEN <<>>
    ELSE (IF blocks[k][2]
          THEN <<FilterAmbiguous(blocks[k][1], c.exclude_ambiguous)>>
          ELSE <<>>) \o SelectedTypesFrom(blocks, k + 1, c)

CharSet(c) == CharSetFrom(Blocks(c), 1, c)

SelectedTypes(c) == SelectedTypesFrom(Blocks(c), 1, c)

RemainingLengthNoSubtract(length, types) == length

RemainingLength(length, types) == length - Len(types)

SwapOverwrite(list, a, b) == [list EXCEPT ![a + 1] = list[b + 1]]

\* password_list[i], password_list[j] = password_list[j], password_list[i]
Swap(list, a, b) ==
    [list EXCEPT ![a + 1] = list[b + 1], ![b + 1] = list[a + 1]]

\* lines 114-116 run to the end from index k, the swap indices read from tape
RECURSIVE ShuffleFrom(_, _, _)
ShuffleFrom(list, k, tape) ==
    IF k >= Len(list) THEN list
    ELSE ShuffleFrom(Swap(list, k, tape[k + 1]), k + 1, tape)

(***************************************************************************)
(* Inputs.                                                                 *)
(***************************************************************************)
ConfigsOf(lengths) ==
    [length : lengths,
     include_lowercase : BOOLEAN, include_uppercase : BOOLEAN,
     include_digits : BOOLEAN, include_symbols : BOOLEAN,
     exclude_ambiguous : BOOLEAN, min_of_each_type : BOOLEAN]

Configs == ConfigsOf(0..MaxLen)

ManyConfigs == ConfigsOf({MinLength - 1, MinLength})

Counts == (-1)..MaxCount

NoConfig == CHOOSE c \in ConfigsOf({0}) : TRUE

(***************************************************************************)
(* State after construction.                                               *)
(***************************************************************************)
InitGen ==
    /\ pc = "idle"
    /\ cfg = NoConfig
    /\ char_set = <<>>
    /\ selected_types = <<>>
    /\ password_chars = <<>>
    /\ password_list = <<>>
    /\ i = 0
    /\ err = "none"
    /\ result = <<>>
    /\ draws = 0

InitMany ==
    /\ many_pc = "idle"
    /\ count = 0
    /\ kwargs = NoConfig
    /\ passwords = <<>>
    /\ many_result = <<>>
    /\ many_err = "none"

InitAn ==
    /\ an_pc = "idle"
    /\ password = <<>>
    /\ report = <<>>

Init == InitGen /\ InitMany /\ InitAn /\ sampled = Probe

(***************************************************************************)
(* generate_password, one action per statement group.                      *)
(***************************************************************************)
\* a fresh frame of generate_password: its arguments, its locals unset
Frame(at, c) ==
    /\ pc' = at
    /\ cfg' = c
    /\ char_set' = <<>>
    /\ selected_types' = <<>>
    /\ password_chars' = <<>>
    /\ password_list' = <<>>
    /\ i' = 0
    /\ err' = "none"
    /\ result' = <<>>
    /\ draws' = 0

Enter(c) == Frame("check_length", c)

Raise(e) ==
    /\ pc' = "error"
    /\ err' = e

\* a direct call of generate_password
GenerateCall ==
    /\ pc = "idle"
    /\ many_pc = "idle"
    /\ an_pc = "idle"
    /\ \E c \in Configs : Enter(c)
    /\ UNCHANGED <<sampled, many_vars, an_vars>>

\* lines 59-60
CheckLength ==
    /\ pc = "check_length"
    /\ IF LengthInvalid(cfg.length)
       THEN Raise("InvalidLength")
       ELSE pc' = "build" /\ err' = err
    /\ UNCHANGED <<cfg, char_set, selected_types, password_chars, password_list,
                   i, result, draws, sampled, many_vars, an_vars>>

\* lines 62-95
BuildCharSet ==
    /\ pc = "build"
    /\ char_set' = CharSet(cfg)
    /\ selected_types' = SelectedTypes(cfg)
    /\ IF Len(char_set') = 0
       THEN Raise("NoClassSelected")
       ELSE pc' = "branch" /\ err' = err
    /\ UNCHANGED <<cfg, password_chars, password_list, i, result, draws,
                   sampled, many_vars, an_vars>>

\* lines 98-103 and 119
Branch ==
    /\ pc = "branch"
    /\ IF cfg.min_of_each_type /\ Len(selected_types) > 0
       THEN IF cfg.length < Len(selected_types)
            THEN Raise("LengthTooShortForClasses")
            ELSE pc' = "each" /\ err' = err
       ELSE pc' = "free" /\ err' = err
    /\ i' = 0
    /\ password_chars' = <<>>
    /\ UNCHANGED <<cfg, char_set, selected_types, password_list, result, draws,
                   sampled, many_vars, an_vars>>

\* lines 104-105; secrets.choice raises IndexError on an empty sequence
DrawEach ==
    /\ pc = "each"
    /\ IF i < Len(selected_types)
       THEN IF Len(selected_types[i + 1]) = 0
            THEN /\ Raise("IndexError")
                 /\ UNCHANGED <<password_chars, i, draws>>
            ELSE /\ \E ch \in Choice(selected_types[i + 1]) :
                        password_chars' = Append(password_chars, ch)
                 /\ i' = i + 1
                 /\ draws' = draws + 1
                 /\ UNCHANGED <<pc, err>>
       ELSE /\ pc' = "fill"
            /\ i' = 0
            /\ UNCHANGED <<password_chars, draws, err>>
    /\ UNCHANGED <<cfg, char_set, selected_types, password_list, result,
                   sampled, many_vars, an_vars>>

\* lines 108-113
Fill ==
    /\ pc = "fill"
    /\ IF i < RemainingLength(cfg.length, selected_types)
       THEN /\ \E ch \in Choice(char_set) :
                   password_chars' = Append(password_chars, ch)
            /\ i' = i + 1
            /\ draws' = draws + 1
            /\ UNCHANGED <<pc, password_list>>
       ELSE /\ password_list' = password_chars
            /\ pc' = "shuffle"
            /\ i' = 0
            /\ UNCHANGED <<password_chars, draws>>
    /\ UNCHANGED <<cfg, char_set, selected_types, err, result,
                   sampled, many_vars, an_vars>>

\* lines 114-118
Shuffle ==
    /\ pc = "shuffle"
    /\ IF i < Len(password_list)
       THEN /\ \E j \in RandBelow(Len(password_list)) :
                   password_list' = Swap(password_list, i, j)
            /\ i' = i + 1
            /\ draws' = draws + 1
            /\ UNCHANGED <<pc, result>>
       ELSE /\ result' = password_list
            /\ pc' = "done"
            /\ UNCHANGED <<password_list, i, draws>>
    /\ UNCHANGED <<cfg, char_set, selected_types, password_chars, err,
                   sampled, many_vars, an_vars>>

\* line 121
Free ==
    /\ pc = "free"
    /\ IF i < cfg.length
       THEN /\ \E ch \in Choice(char_set) :
                   password_chars' = Append(password_chars, ch)
            /\ i' = i + 1
            /\ draws' = draws + 1
            /\ UNCHANGED <<pc, result>>
       ELSE /\ result' = password_chars
            /\ pc' = "done"
            /\ UNCHANGED <<password_chars, i, draws>>
    /\ UNCHANGED <<cfg, char_set, selected_types, password_list, err,
                   sampled, many_vars, an_vars>>

GenerateSteps ==
    \/ CheckLength
    \/ BuildCharSet
    \/ Branch
    \/ DrawEach
    \/ Fill
    \/ Shuffle
    \/ Free

Next ==
    \/ GenerateCall
    \/ GenerateSteps

Spec == Init /\ [][Next]_vars

(***************************************************************************)
(* generate_multiple_passwords, line 129: a list comprehension calling     *)
(* generate_password with the keyword arguments once per element of        *)
(* range(count).                                                           *)
(***************************************************************************)
MoreToGenerateOffByOne(done, n) == done < n - 1

\* range(count) has another element after done iterations
MoreToGenerate(done, n) == done < n

ManyCall ==
    /\ many_pc = "idle"
    /\ pc = "idle"
    /\ an_pc = "idle"
    /\ many_pc' = "loop"
    /\ count' \in Counts
    /\ kwargs' \in ManyConfigs
    /\ passwords' = <<>>
    /\ UNCHANGED <<many_result, many_err, gen_vars, sampled, an_vars>>

\* the comprehension starts its next call, or the list is returned
ManyNext ==
    /\ many_pc = "loop"
    /\ pc = "idle"
    /\ IF MoreToGenerate(Len(passwords), count)
       THEN /\ Enter(kwargs)
            /\ UNCHANGED many_vars
       ELSE /\ many_pc' = "done"
            /\ many_result' = passwords
            /\ UNCHANGED <<count, kwargs, passwords, many_err, gen_vars>>
    /\ UNCHANGED <<sampled, an_vars>>

\* a call returned: its string joins the list
ManyCollect ==
    /\ many_pc = "loop"
    /\ pc = "done"
    /\ passwords' = Append(passwords, result)
    /\ Frame("idle", NoConfig)
    /\ UNCHANGED <<many_pc, count, kwargs, many_result, many_err>>
    /\ UNCHANGED <<sampled, an_vars>>

\* a call raised: the exception leaves the comprehension, the list is dropped
ManyRaise ==
    /\ many_pc = "loop"
    /\ pc = "error"
    /\ many_pc' = "error"
    /\ many_err' = err
    /\ passwords' = <<>>
    /\ UNCHANGED <<count, kwargs, many_result, gen_vars, sampled, an_vars>>

InitManySpec == InitGen /\ InitMany /\ InitAn /\ sampled = ManyProbe

NextMany ==
    \/ ManyCall
    \/ ManyNext
    \/ GenerateSteps
    \/ ManyCollect
    \/ ManyRaise

SpecMany == InitManySpec /\ [][NextMany]_vars

(***************************************************************************)
(* check_password_strength, lines 131-165.                                 *)
(***************************************************************************)
\* str.islower / isupper / isdigit on one ASCII character
LowerSet == Range(lowercase)
IsLower(ch) == ch \in LowerSet
UpperSet == Range(uppercase)
IsUpper(ch) == ch \in UpperSet
DigitSet == Range(digits)
IsDigit(ch) == ch \in DigitSet

SymbolSet == Range(symbols)

has_lower(p) == \E k \in 1..Len(p) : IsLower(p[k])
has_upper(p) == \E k \in 1..Len(p) : IsUpper(p[k])
has_digit(p) == \E k \in 1..Len(p) : IsDigit(p[k])
has_symbol(p) == \E k \in 1..Len(p) : p[k] \in SymbolSet

AsInt(b) == IF b THEN 1 ELSE 0

character_types(p) ==
    AsInt(has_lower(p)) + AsInt(has_upper(p)) + AsInt(has_digit(p)) + AsInt(has_symbol(p))

strength_score_strict(len, types) ==
    LET s1 == IF len >= 8 THEN 1 ELSE 0
        s2 == IF len >= 12 THEN s1 + 1 ELSE s1
        s3 == IF types > 3 THEN s2 + 1 ELSE s2
        s4 == IF types = 4 THEN s3 + 1 ELSE s3
        s5 == IF len >= 16 THEN s4 + 1 ELSE s4
    IN  s5

strength_score(len, types) ==
    LET s1 == IF len >= 8 THEN 1 ELSE 0
        s2 == IF len >= 12 THEN s1 + 1 ELSE s1
        s3 == IF types >= 3 THEN s2 + 1 ELSE s2
        s4 == IF types = 4 THEN s3 + 1 ELSE s3
        s5 == IF len >= 16 THEN s4 + 1 ELSE s4
    IN  s5

strength_levels == <<"Very Weak", "Weak", "Fair", "Good", "Strong">>

Min(a, b) == IF a < b THEN a ELSE b

check_password_strength(p) ==
    LET types == character_types(p)
        score == strength_score(Len(p), types)
    IN  [length |-> Len(p),
         has_lowercase |-> has_lower(p),
         has_uppercase |-> has_upper(p),
         has_digits |-> has_digit(p),
         has_symbols |-> has_symbol(p),
         character_types |-> types,
         strength |-> strength_levels[Min(score, 4) + 1],
         strength_score |-> score]

\* inputs: a head of up to MaxHead characters followed by up to MaxPad blanks
AnalyzeChars == {"a", "A", "5", "!", "'"}

Heads == UNION {[1..n -> AnalyzeChars] : n \in 0..MaxHead}

Pad(n) == [k \in 1..n |-> " "]

Analyze ==
    /\ an_pc = "idle"
    /\ pc = "idle"
    /\ many_pc = "idle"
    /\ \E h \in Heads, n \in 0..MaxPad : password' = h \o Pad(n)
    /\ report' = check_password_strength(password')
    /\ an_pc' = "done"
    /\ UNCHANGED <<gen_vars, sampled, many_vars>>

NextAnalyze == Analyze

SpecAnalyze == Init /\ [][NextAnalyze]_vars

(***************************************************************************)
(* Vocabulary of the properties, stated from the class tables alone.       *)
(***************************************************************************)
ClassNames == {"lowercase", "uppercase", "digits", "symbols"}

Table(t) ==
    CASE t = "lowercase" -> lowercase
      [] t = "uppercase" -> uppercase
      [] t = "digits" -> digits
      [] t = "symbols" -> symbols

Enabled(c, t) ==
    CASE t = "lowercase" -> c.include_lowercase
      [] t = "uppercase" -> c.include_uppercase
      [] t = "digits" -> c.include_digits
      [] t = "symbols" -> c.include_symbols

EnabledClasses(c) == {t \in ClassNames : Enabled(c, t)}

AmbiguousSet == Range(ambiguous_chars)

AllowedIn(t, c) ==
    IF c.exclude_ambiguous THEN Range(Table(t)) \ AmbiguousSet ELSE Range(Table(t))

Allowed(c) == UNION {AllowedIn(t, c) : t \in EnabledClasses(c)}

NumEnabled(c) == Cardinality(EnabledClasses(c))

Terminated == pc \in {"done", "error"}

Called == pc # "idle"

(***************************************************************************)
(* C1: a password returned by generate_password has exactly the requested  *)
(* number of characters, on the one-of-each path and on the free path,     *)
(* whatever the random source returned.                                    *)
(***************************************************************************)
C1_LengthExact ==
    pc = "done" =>
        /\ Len(result) = cfg.length
        /\ cfg.length >= MinLength
        /\ NumEnabled(cfg) >= 1

C1_Witness ==
    /\ pc = "done"
    /\ cfg.min_of_each_type
    /\ NumEnabled(cfg) = 3
    /\ draws = 2 * cfg.length
    /\ Len(result) = MinLength

(***************************************************************************)
(* C2: every character of a returned password belongs to an enabled class  *)
(* after ambiguous filtering: with exclude_ambiguous no character is       *)
(* ambiguous, and no character of a disabled class appears.                *)
(***************************************************************************)
C2_Membership ==
    pc = "done" =>
        \A k \in 1..Len(result) :
            /\ result[k] \in Allowed(cfg)
            /\ cfg.exclude_ambiguous => result[k] \notin AmbiguousSet
            /\ \A t \in ClassNames \ EnabledClasses(cfg) :
                   result[k] \notin Range(Table(t))

C2_Witness ==
    /\ pc = "done"
    /\ cfg.exclude_ambiguous
    /\ ~cfg.min_of_each_type
    /\ EnabledClasses(cfg) = {"lowercase", "digits"}
    /\ "9" \in Range(result)
    /\ "a" \in Range(result)

(***************************************************************************)
(* C3: with min_of_each_type on, a returned password holds at least one    *)
(* character of every enabled class's filtered subset, whatever the draws  *)
(* and the swap indices were.                                              *)
(***************************************************************************)
C3_OneOfEach ==
    (pc = "done" /\ cfg.min_of_each_type) =>
        \A t \in EnabledClasses(cfg) :
            \E k \in 1..Len(result) : result[k] \in AllowedIn(t, cfg)

C3_Witness ==
    /\ pc = "done"
    /\ cfg.min_of_each_type
    /\ NumEnabled(cfg) = 4
    /\ result[1] \in Range(symbols)
    /\ result[Len(result)] \in Range(lowercase)

(***************************************************************************)
(* C4: the checks run in a fixed order and the first failure wins: a call  *)
(* with length < 4 ends with InvalidLength whatever the other arguments    *)
(* are, a call with length >= 4 and no class enabled ends with             *)
(* NoClassSelected, and neither returns a password.                        *)
(***************************************************************************)
C4_ValidationOrder ==
    /\ (Called /\ cfg.length < 4) =>
          /\ pc \in {"check_length", "error"}
          /\ pc = "error" => err = "InvalidLength"
          /\ result = <<>>
    /\ (Called /\ cfg.length >= 4 /\ NumEnabled(cfg) = 0) =>
          /\ pc \in {"check_length", "build", "error"}
          /\ pc = "error" => err = "NoClassSelected"
          /\ result = <<>>

C4_Witness ==
    /\ pc = "error"
    /\ err = "InvalidLength"
    /\ cfg.length = 3
    /\ NumEnabled(cfg) = 0

(***************************************************************************)
(* C7 as stated: with min_of_each_type on and length below the number of   *)
(* enabled classes, generate_password ends with LengthTooShortForClasses.  *)
(***************************************************************************)
C7_Original ==
    (Terminated /\ cfg.min_of_each_type /\ cfg.length < NumEnabled(cfg)) =>
        (pc = "error" /\ err = "LengthTooShortForClasses")

(***************************************************************************)
(* C7 amended: with min_of_each_type on and length below the number of     *)
(* enabled classes, generate_password ends with InvalidLength, raised by   *)
(* the first check; LengthTooShortForClasses is never raised.              *)
(***************************************************************************)
C7_ShortLengthIsInvalidLength ==
    /\ (Terminated /\ cfg.min_of_each_type /\ cfg.length < NumEnabled(cfg)) =>
          (pc = "error" /\ err = "InvalidLength")
    /\ err # "LengthTooShortForClasses"

C7_Witness ==
    /\ pc = "error"
    /\ err = "InvalidLength"
    /\ cfg.min_of_each_type
    /\ cfg.length = 1
    /\ EnabledClasses(cfg) = {"lowercase", "uppercase"}

(***************************************************************************)
(* C8: every error is raised before the first draw from the random source: *)
(* a call that ended in an error drew nothing and returned nothing, not    *)
(* even a partial buffer.                                                  *)
(***************************************************************************)
C8_ErrorsBeforeDraws ==
    /\ (pc = "error") <=> (err # "none")
    /\ err # "none" =>
          /\ draws = 0
          /\ result = <<>>
          /\ password_chars = <<>>
          /\ password_list = <<>>
    /\ draws > 0 => pc \in {"each", "fill", "shuffle", "free", "done"}

C8_Witness ==
    /\ pc = "error"
    /\ err = "NoClassSelected"
    /\ cfg.min_of_each_type
    /\ draws = 0

(***************************************************************************)
(* C10 as stated: counting over all sequences of swap indices the random   *)
(* source can return, every permutation of the n buffer positions is       *)
(* produced by the same number of sequences.                               *)
(***************************************************************************)
Tapes(n) == [1..n -> RandBelow(n)]

Identity(n) == [k \in 1..n |-> k]

TapesProducing(n, perm) ==
    Cardinality({tape \in Tapes(n) : ShuffleFrom(Identity(n), 0, tape) = perm})

C10_ShuffleUnbiased ==
    (pc = "shuffle" /\ i = 0) =>
        LET n == Len(password_list)
        IN  \A p1, p2 \in Permutations(1..n) :
                TapesProducing(n, p1) = TapesProducing(n, p2)

(***************************************************************************)
(* C5 as stated: generate_multiple_passwords called with count < 1 fails   *)
(* with InvalidCount instead of returning a list.                          *)
(***************************************************************************)
ManyTerminated == many_pc \in {"done", "error"}

C5_InvalidCountRejected ==
    (ManyTerminated /\ count < 1) =>
        (many_pc = "error" /\ many_err = "InvalidCount")

(***************************************************************************)
(* C6: for count >= 1 generate_multiple_passwords returns exactly count    *)
(* passwords, each meeting the length, membership and one-of-each          *)
(* constraints of the arguments; when a generate_password call fails the   *)
(* whole call fails with that error and no list is returned.               *)
(***************************************************************************)
Satisfies(pw, c) ==
    /\ Len(pw) = c.length
    /\ Range(pw) \subseteq Allowed(c)
    /\ c.min_of_each_type =>
          \A t \in EnabledClasses(c) : Range(pw) \cap AllowedIn(t, c) # {}

C6_ManyContract ==
    /\ (many_pc = "done" /\ count >= 1) =>
          /\ Len(many_result) = count
          /\ \A k \in 1..Len(many_result) : Satisfies(many_result[k], kwargs)
    /\ (many_pc = "loop" /\ count >= 1) => Len(passwords) <= count
    /\ many_pc = "error" =>
          /\ pc = "error"
          /\ many_err = err
          /\ many_err # "none"
          /\ many_result = <<>>
          /\ passwords = <<>>
    /\ (pc = "error" /\ count >= 1) => many_pc # "done"

C6_Witness ==
    /\ many_pc = "done"
    /\ count = 2
    /\ Len(many_result) = 2
    /\ many_result[1] # many_result[2]
    /\ kwargs.min_of_each_type
    /\ kwargs.exclude_ambiguous
    /\ NumEnabled(kwargs) = 3

(***************************************************************************)
(* C9: check_password_strength returns                                     *)
(*   score = [len >= 8] + [len >= 12] + [types >= 3] + [types = 4]         *)
(*           + [len >= 16]                                                 *)
(* with types the number of true flags, 0 <= score <= 5, and the label     *)
(* at index min(score, 4) of Very Weak, Weak, Fair, Good, Strong; the      *)
(* empty string scores 0, a 10-character string of 4 classes scores 3.     *)
(***************************************************************************)
LabelOf(score) ==
    CASE score = 0 -> "Very Weak"
      [] score = 1 -> "Weak"
      [] score = 2 -> "Fair"
      [] score = 3 -> "Good"
      [] score >= 4 -> "Strong"

C9_ScoreAndLabel ==
    an_pc = "done" =>
        LET n == Len(password)
            types == AsInt(report.has_lowercase) + AsInt(report.has_uppercase)
                     + AsInt(report.has_digits) + AsInt(report.has_symbols)
            score == AsInt(n >= 8) + AsInt(n >= 12) + AsInt(types >= 3)
                     + AsInt(types = 4) + AsInt(n >= 16)
        IN  /\ report.length = n
            /\ report.character_types = types
            /\ report.strength_score = score
            /\ score \in 0..5
            /\ report.strength = LabelOf(score)
            /\ n = 0 => (types = 0 /\ score = 0 /\ report.strength = "Very Weak")
            /\ (n = 10 /\ types = 4) => (score = 3 /\ report.strength = "Good")

C9_Witness ==
    /\ an_pc = "done"
    /\ Len(password) = 16
    /\ report.character_types = 4
    /\ report.strength_score = 5
    /\ report.strength = "Strong"

====
